---- MODULE Spec2Model ----
(***************************************************************************)
(* A model of volute's rendering pipeline (src/volute/render.py):          *)
(*   Geometry.compile -> compute_surface_matrix -> paint_image ->          *)
(*   _split_into_tiles,                                                    *)
(* as run by render_heatmap_to_tiles (stretch_to_full_tiles = TRUE) and    *)
(* render_heatmap_to_image (stretch_to_full_tiles = FALSE).                *)
(*                                                                         *)
(* Numbers.  Geographic coordinates are given on the finest pixel grid     *)
(* the model uses: a longitude is the Web-Mercator pixel column at zoom    *)
(* MaxZoom, a latitude the pixel row at zoom MaxZoom (rows grow            *)
(* southwards, so north <= south for a box that is not inverted).          *)
(* mercantile.tile floors such a coordinate to the tile (or, at zoom + 8,  *)
(* the pixel) that holds it.  Floating point values of the surface are     *)
(* fixed-point integers in units of 1/Scale.                                   *)
(***************************************************************************)
EXTENDS Integers, Sequences, FiniteSets, TLC

\* ---------------------------------------------------------------- bounds

MaxZoom == 1
MaxPoints == 2
MaxColors == 3

\* ------------------------------------------------------------- constants

TileSize == 256
PixelZoom == 8
Scale == 1000

\* An absent Optional value is the empty tuple, a present one <<value>>.
None == <<>>
Some(v) == <<v>>

\* NaN: a value no cell of a surface can hold otherwise.
NaN == 0 - Scale * Scale

\* ------------------------------------------------------------- arithmetic

Max(a, b) == IF a >= b THEN a ELSE b
Min(a, b) == IF a <= b THEN a ELSE b

RECURSIVE Pow2(_)
Pow2(n) == IF n <= 0 THEN 1 ELSE 2 * Pow2(n - 1)

\* mercantile.tile(lng, lat, zoom)[:2], one axis: the index of the tile of
\* zoom `zoom` holding the coordinate c2 / 2 (coordinates are passed doubled so
\* that the midpoint of a box stays an integer).  The result is clamped to the
\* world, as mercantile does.
TileIndex(c2, zoom) ==
  LET cell == 2 * Pow2(MaxZoom + PixelZoom - zoom)
      last == Pow2(zoom) - 1
  IN  IF c2 <= 0 THEN 0 ELSE Min(c2 \div cell, last)

\* mercantile.tile(lng, lat, zoom)[:2] as a pair <<x, y>>.
MercTile(lng, lat, zoom) == <<TileIndex(2 * lng, zoom), TileIndex(2 * lat, zoom)>>

\* ---------------------------------------------------------------- inputs

\* Spans <<low, high>> of pixel columns/rows around the boundary between the
\* first two tiles of zoom MaxZoom: two that straddle it, one inside the
\* second tile, and two inverted ones.
AxisSpans ==
  { <<TileSize - 2, TileSize>>, <<TileSize - 1, TileSize>>,
    <<TileSize, TileSize + 1>>,
    <<TileSize, TileSize - 1>>, <<TileSize, TileSize - 2>> }

\* LatLngBox(south, west, north, east).
Boxes ==
  { [south |-> ns[2], west |-> we[1], north |-> ns[1], east |-> we[2]] :
      ns \in AxisSpans, we \in AxisSpans }

ValidBoxes == { b \in Boxes : b.north <= b.south /\ b.west <= b.east }

Zooms == 0 .. MaxZoom

\* DataPoint.weight values and DataPoint.radius_metres values (None: absent).
Weights == {1, 2}
RadiiMetres == {None, Some(0), Some(1), Some(2), Some(4)}

\* Pixel columns/rows of data points: far before, just before, at, and far
\* after the tile boundary the boxes straddle.
PointCoords == {TileSize - 4, TileSize - 1, TileSize, TileSize + 4}

\* DataPoint(latlng, weight, radius_metres)
DataPoints ==
  [latlng : [lat : PointCoords, lng : PointCoords], weight : Weights,
   radius_metres : RadiiMetres]

\* ------------------------------------------------------ Geometry.compile

\* A float quotient num / den, kept exact.
Frac(num, den) == [num |-> num, den |-> den]

\* Mutant: the exclusive pixel bound is made by the other branch's "+= 1".
CompileStretchedPlusOne(box, zoom) ==
  LET top_left_tile == MercTile(box.west, box.north, zoom)
      top_left_pixel == <<top_left_tile[1] * TileSize, top_left_tile[2] * TileSize>>
      se == MercTile(box.east, box.south, zoom)
      bottom_right_tile == <<se[1] + 1, se[2] + 1>>
      bottom_right_pixel == <<se[1] * TileSize + 1, se[2] * TileSize + 1>>
  IN  [top_left_tile |-> top_left_tile,
       top_left_pixel |-> top_left_pixel,
       bottom_right_tile |-> bottom_right_tile,
       bottom_right_pixel |-> bottom_right_pixel,
       pixel_size |-> <<bottom_right_pixel[1] - top_left_pixel[1],
                        bottom_right_pixel[2] - top_left_pixel[2]>>]

CompileStretched(box, zoom) ==
  LET top_left_tile == MercTile(box.west, box.north, zoom)
      top_left_pixel == <<top_left_tile[1] * TileSize, top_left_tile[2] * TileSize>>
      se == MercTile(box.east, box.south, zoom)
      bottom_right_tile == <<se[1] + 1, se[2] + 1>>
      bottom_right_pixel ==
        <<bottom_right_tile[1] * TileSize, bottom_right_tile[2] * TileSize>>
  IN  [top_left_tile |-> top_left_tile,
       top_left_pixel |-> top_left_pixel,
       bottom_right_tile |-> bottom_right_tile,
       bottom_right_pixel |-> bottom_right_pixel,
       pixel_size |-> <<bottom_right_pixel[1] - top_left_pixel[1],
                        bottom_right_pixel[2] - top_left_pixel[2]>>]

CompileExact(box, zoom) ==
  LET top_left_pixel == MercTile(box.west, box.north, zoom + PixelZoom)
      top_left_tile ==
        <<Frac(top_left_pixel[1], TileSize), Frac(top_left_pixel[2], TileSize)>>
      se == MercTile(box.east, box.south, zoom + PixelZoom)
      bottom_right_tile ==
        <<Frac(se[1] + TileSize, TileSize), Frac(se[2] + TileSize, TileSize)>>
      bottom_right_pixel == <<se[1] + 1, se[2] + 1>>
  IN  [top_left_tile |-> top_left_tile,
       top_left_pixel |-> top_left_pixel,
       bottom_right_tile |-> bottom_right_tile,
       bottom_right_pixel |-> bottom_right_pixel,
       pixel_size |-> <<bottom_right_pixel[1] - top_left_pixel[1],
                        bottom_right_pixel[2] - top_left_pixel[2]>>]

\* Geometry.compile(box, zoom, stretch_to_full_tiles).  It has no failing path.
GeometryCompile(box, zoom, stretch_to_full_tiles) ==
  IF stretch_to_full_tiles THEN CompileStretched(box, zoom)
  ELSE CompileExact(box, zoom)

\* ------------------------------------------------------------- surfaces

\* A numpy array of shape <<w, h>>, stored sparsely: `cells` holds the cells
\* whose value differs from `bg`, every other cell of the shape holds `bg`.
MkArray(shape, bg, f) ==
  [shape |-> shape, bg |-> bg,
   cells |-> [c \in {d \in DOMAIN f : f[d] # bg} |-> f[c]]]

Val(a, c) == IF c \in DOMAIN a.cells THEN a.cells[c] ELSE a.bg

NumCells(a) == a.shape[1] * a.shape[2]

\* The values the array holds (of its stored cells and, when some cell is not
\* stored, the background).
Values(a) ==
  {a.cells[c] : c \in DOMAIN a.cells} \cup
  (IF Cardinality(DOMAIN a.cells) < NumCells(a) THEN {a.bg} ELSE {})

\* np.zeros(shape) raises ValueError on a negative dimension.
ZerosRaises(shape) == shape[1] < 0 \/ shape[2] < 0
Zeros(shape) == MkArray(shape, 0, <<>>)

\* ---------------------------------------------------- _metres_to_pixels

\* inverse_haversine(..., metres / 1000, Direction.EAST): the longitude
\* `metres` to the east, doubled; one metre is one pixel of zoom MaxZoom.
EastOf(lng2, metres) == lng2 + 2 * metres

metres_to_pixels(box, zoom, metres) ==
  LET lng1 == box.east + box.west       \* doubled midpoint
      pt1x == TileIndex(lng1, zoom + PixelZoom)
      pt2x == TileIndex(EastOf(lng1, metres), zoom + PixelZoom)
  IN  pt2x - pt1x

\* -------------------------------------------------------- _create_kernel

\* exp(-0.5 * v * v) for v = dist / (radius / 5), dist * dist = d2, in units
\* of 1/Scale (rounded to nearest).
Gauss(radius, d2) ==
  CASE d2 = 0 -> Scale
    [] radius = 2 /\ d2 = 1 -> 44
    [] radius = 2 /\ d2 = 2 -> 2
    [] radius = 3 /\ d2 = 1 -> 249
    [] radius = 3 /\ d2 = 2 -> 62
    [] radius = 3 /\ d2 = 4 -> 4
    [] radius = 3 /\ d2 = 5 -> 1
    [] radius = 3 /\ d2 = 8 -> 0
    [] radius = 4 /\ d2 = 1 -> 458
    [] radius = 4 /\ d2 = 2 -> 210
    [] radius = 4 /\ d2 = 4 -> 44
    [] radius = 4 /\ d2 = 5 -> 20
    [] radius = 4 /\ d2 = 8 -> 2
    [] radius = 4 /\ d2 = 9 -> 1
    [] radius = 4 /\ d2 \in {10, 13} -> 0

\* np.zeros([r2, r2]) raises ValueError when r2 < 0.
CreateKernelRaises(radius_in_pixels) == radius_in_pixels < 0

\* The kernel as a function on (0 .. r2-1) \X (0 .. r2-1).
create_kernel(radius_in_pixels) ==
  LET r2 == 2 * radius_in_pixels
  IN  [c \in (0 .. r2 - 1) \X (0 .. r2 - 1) |->
         LET d2 == (c[1] - radius_in_pixels) * (c[1] - radius_in_pixels)
                 + (c[2] - radius_in_pixels) * (c[2] - radius_in_pixels)
         IN  IF d2 < radius_in_pixels * radius_in_pixels
             THEN Gauss(radius_in_pixels, d2) ELSE 0]

\* ------------------------------------------------- compute_surface_matrix

\* Python's `a or b` on an Optional[int]: None and 0 are falsy.
PyOr(a, b) == IF a = None THEN b ELSE IF a[1] = 0 THEN b ELSE a[1]

\* Python's index normalisation in a slice of a sequence of length n.
PyIndex(n, i) == IF i < 0 THEN Max(0, n + i) ELSE Min(i, n)

\* a[start:stop] of a sequence of length n: `len` indexes from `lo`.
PySlice(n, start, stop) ==
  LET lo == PyIndex(n, start)
      hi == PyIndex(n, stop)
  IN  [lo |-> lo, len |-> Max(0, hi - lo)]

\* Lines 101-105: the rows of the kernel kept, and the row of the surface
\* they go to.
TrimX(x, r2, width) ==
  IF x < 0 THEN [at |-> 0, view |-> PySlice(r2, -x, r2)]
  ELSE IF x + r2 > width
       THEN [at |-> x, view |-> PySlice(r2, 0, width - x - r2)]
       ELSE [at |-> x, view |-> PySlice(r2, 0, r2)]

\* Lines 106-110: the same for the columns, with >= where the rows have >.
TrimY(y, r2, height) ==
  IF y < 0 THEN [at |-> 0, view |-> PySlice(r2, -y, r2)]
  ELSE IF y + r2 >= height
       THEN [at |-> y, view |-> PySlice(r2, 0, height - y - r2)]
       ELSE [at |-> y, view |-> PySlice(r2, 0, r2)]

\* numpy's in-place add of an operand of length `src` into a slice of length
\* `dst`, on one axis: the operand is broadcast when it has length 1, and the
\* add raises ValueError when the lengths differ otherwise.
Broadcasts(src, dst) == src = dst \/ src = 1

\* The radius in pixels of a data point's kernel (line 93).
RadiusPixels(config, box, zoom, point) ==
  metres_to_pixels(box, zoom, PyOr(point.radius_metres, config.default_radius_metres))

\* The kernel's top-left corner on the canvas (lines 96-97).
KernelOrigin(zoom, geom, point, radius_pixels) ==
  LET px == MercTile(point.latlng.lng, point.latlng.lat, zoom + PixelZoom)
  IN  <<px[1] - geom.top_left_pixel[1] - radius_pixels,
        px[2] - geom.top_left_pixel[2] - radius_pixels>>

\* Mutant: the stamp is assigned to the slice ("=" for "+=").
AssignStamp(surface, kernel, weight, tx, ty) ==
  LET sx == PySlice(surface.shape[1], tx.at, tx.at + tx.view.len)
      sy == PySlice(surface.shape[2], ty.at, ty.at + ty.view.len)
      target == (sx.lo .. sx.lo + sx.len - 1) \X (sy.lo .. sy.lo + sy.len - 1)
      kx(c) == tx.view.lo + (IF tx.view.len = 1 THEN 0 ELSE c[1] - sx.lo)
      ky(c) == ty.view.lo + (IF ty.view.len = 1 THEN 0 ELSE c[2] - sy.lo)
      touched == DOMAIN surface.cells \cup target
  IN  MkArray(surface.shape, surface.bg,
        [c \in touched |->
           IF c \in target
           THEN kernel[<<kx(c), ky(c)>>] * weight
           ELSE Val(surface, c)])

\* surface[x : x + stamp.shape[0], y : y + stamp.shape[1]] += stamp (line 113)
\* for the stamp cut by tx and ty out of kernel * weight.
AddStamp(surface, kernel, weight, tx, ty) ==
  LET sx == PySlice(surface.shape[1], tx.at, tx.at + tx.view.len)
      sy == PySlice(surface.shape[2], ty.at, ty.at + ty.view.len)
      target == (sx.lo .. sx.lo + sx.len - 1) \X (sy.lo .. sy.lo + sy.len - 1)
      kx(c) == tx.view.lo + (IF tx.view.len = 1 THEN 0 ELSE c[1] - sx.lo)
      ky(c) == ty.view.lo + (IF ty.view.len = 1 THEN 0 ELSE c[2] - sy.lo)
      touched == DOMAIN surface.cells \cup target
  IN  MkArray(surface.shape, surface.bg,
        [c \in touched |->
           IF c \in target
           THEN Val(surface, c) + kernel[<<kx(c), ky(c)>>] * weight
           ELSE Val(surface, c)])

\* Whether the in-place add of line 113 raises for this point, its kernel
\* having the radius radius_pixels.
SliceAddRaises(surface, zoom, geom, point, radius_pixels) ==
  LET r2 == 2 * radius_pixels
      o == KernelOrigin(zoom, geom, point, radius_pixels)
      tx == TrimX(o[1], r2, surface.shape[1])
      ty == TrimY(o[2], r2, surface.shape[2])
      sx == PySlice(surface.shape[1], tx.at, tx.at + tx.view.len)
      sy == PySlice(surface.shape[2], ty.at, ty.at + ty.view.len)
  IN  ~(Broadcasts(tx.view.len, sx.len) /\ Broadcasts(ty.view.len, sy.len))

\* The surface after lines 96-113 for this point and the kernel that
\* _create_kernel(radius_pixels) returned, when the add does not raise.
StampWith(surface, zoom, geom, point, radius_pixels, kernel) ==
  LET r2 == 2 * radius_pixels
      o == KernelOrigin(zoom, geom, point, radius_pixels)
  IN  AddStamp(surface, kernel, point.weight,
               TrimX(o[1], r2, surface.shape[1]), TrimY(o[2], r2, surface.shape[2]))

\* Whether the body of the loop (lines 93-113) raises for this point, the
\* two functions being computed afresh.
StampRaises(surface, config, box, zoom, geom, point) ==
  LET radius_pixels == RadiusPixels(config, box, zoom, point)
  IN  IF CreateKernelRaises(radius_pixels) THEN TRUE
      ELSE SliceAddRaises(surface, zoom, geom, point, radius_pixels)

\* The surface after the body of the loop for this point, when it does not
\* raise, the two functions being computed afresh.
Stamp(surface, config, box, zoom, geom, point) ==
  LET radius_pixels == RadiusPixels(config, box, zoom, point)
  IN  StampWith(surface, zoom, geom, point, radius_pixels,
                create_kernel(radius_pixels))

\* ------------------------------------------------------------- lru_cache

\* The entries an lru_cache keeps (128 in functools; small here so that
\* entries are evicted).
CacheSize == 1

\* A cache is the sequence of its entries [key, value], the least recently
\* used first.
LruHas(cache, key) == \E i \in DOMAIN cache : cache[i].key = key

LruGet(cache, key) ==
  cache[CHOOSE i \in DOMAIN cache : cache[i].key = key].value

\* Whether a call with this key drops the least recently used entry.
LruEvicts(cache, key) == ~LruHas(cache, key) /\ Len(cache) >= CacheSize

\* The cache after a call with this key that returned `value`: the entry
\* becomes the most recently used one.
LruPut(cache, key, value) ==
  LET Other(e) == e.key # key
      entries == Append(SelectSeq(cache, Other), [key |-> key, value |-> value])
  IN  IF Len(entries) > CacheSize THEN Tail(entries) ELSE entries

\* _metres_to_pixels(box, zoom, metres) under @lru_cache.
cached_metres_to_pixels(cache, box, zoom, metres) ==
  IF LruHas(cache, <<box, zoom, metres>>)
  THEN LruGet(cache, <<box, zoom, metres>>)
  ELSE metres_to_pixels(box, zoom, metres)

\* _create_kernel(radius_in_pixels) under @lru_cache: the array the cache
\* holds is the array returned.
cached_create_kernel(cache, radius_in_pixels) ==
  IF LruHas(cache, radius_in_pixels)
  THEN LruGet(cache, radius_in_pixels)
  ELSE create_kernel(radius_in_pixels)

\* Mutant: the kernel is weighted in place (kernel *= point.weight).
KernelWeightedInPlace(kernel, weight) ==
  [c \in DOMAIN kernel |-> kernel[c] * weight]

\* The array _create_kernel returned, after lines 94-113: the product with
\* the weight is a new array and the slices are views that are only read.
KernelAfterStamp(kernel, weight) == kernel

\* np.log(x + 1) in units of 1/Scale, rounded to nearest: ln by halving the
\* argument down to [1, 2) and the series 2 * (z + z^3/3 + z^5/5 + z^7/7),
\* z = (a - 1) / (a + 1), computed in units of 1/Fine.
Fine == 10 * Scale
Ln2Fine == 6931

RECURSIVE LnFine(_)
LnFine(a) ==
  IF a >= 2 * Fine THEN Ln2Fine + LnFine(a \div 2)
  ELSE LET z == (Fine * (a - Fine)) \div (a + Fine)
           z2 == (z * z) \div Fine
           z3 == (z * z2) \div Fine
           z5 == (z3 * z2) \div Fine
           z7 == (z5 * z2) \div Fine
       IN  2 * (z + z3 \div 3 + z5 \div 5 + z7 \div 7)

Log1p(v) == (LnFine((v + Scale) * 10) + 5) \div 10

\* A float division a / b of fixed-point values, numpy's way: 0 / 0 is NaN
\* (numpy warns and goes on), x / 0 is infinite, NaN stays NaN.
Inf == Scale * Scale
FDiv(a, b) ==
  IF a = NaN \/ b = NaN THEN NaN
  ELSE IF b = 0 THEN (IF a = 0 THEN NaN ELSE Inf)
  ELSE (a * Scale) \div b

\* Lines 117-118: num_loggings passes of surface = np.log(surface + 1).
RECURSIVE Logged(_, _)
Logged(surface, num_loggings) ==
  IF num_loggings <= 0 THEN surface
  ELSE Logged(MkArray(surface.shape, Log1p(surface.bg),
                      [c \in DOMAIN surface.cells |-> Log1p(surface.cells[c])]),
              num_loggings - 1)

SetMin(S) == CHOOSE m \in S : \A v \in S : m <= v
SetMax(S) == CHOOSE m \in S : \A v \in S : m >= v

\* np.amin / np.amax raise ValueError on an array without cells.
AminRaises(surface) == NumCells(surface) = 0

\* Line 121: surface = (surface - np.amin(surface)) / np.amax(surface)
Normalised(surface) ==
  LET lo == SetMin(Values(surface))
      hi == SetMax(Values(surface))
      F(v) == FDiv(v - lo, hi)
  IN  MkArray(surface.shape, F(surface.bg),
              [c \in DOMAIN surface.cells |-> F(surface.cells[c])])

\* Mutant: the cells above high_trim are zeroed, not clamped.
HighTrimmedToZero(surface, high_trim) ==
  LET F(v) == FDiv(IF v # NaN /\ v > high_trim THEN 0 ELSE v, high_trim)
  IN  MkArray(surface.shape, F(surface.bg),
              [c \in DOMAIN surface.cells |-> F(surface.cells[c])])

\* Lines 124-125: clamp to high_trim, then divide by it.
HighTrimmed(surface, high_trim) ==
  LET F(v) == FDiv(IF v # NaN /\ v > high_trim THEN high_trim ELSE v, high_trim)
  IN  MkArray(surface.shape, F(surface.bg),
              [c \in DOMAIN surface.cells |-> F(surface.cells[c])])

\* Lines 115-127, for a surface that has cells.
ToneMapped(config, surface) ==
  HighTrimmed(Normalised(surface), config.high_trim)

\* ------------------------------------------------------------ paint_image

\* compile_color_spectrum: pos = i / (num_colors - 1) raises
\* ZeroDivisionError for num_colors = 1.
SpectrumRaises(num_colors) == num_colors = 1

\* Mutant: the spectrum runs from the hottest colour to the coolest.
color_spectrum_reversed(num_colors) == [i \in 1 .. num_colors |-> num_colors - i]

\* list(compile_color_spectrum(gradient, num_colors)): a colour is named by
\* its place in the spectrum, 0 the coolest.
color_spectrum(num_colors) == [i \in 1 .. num_colors |-> i - 1]

\* The cells the sparse array does not store.
NumBackground(a) == NumCells(a) - Cardinality(DOMAIN a.cells)

\* len(all_values), all_values = np.sort(surface[surface > 0]).
NumValues(surface) ==
  Cardinality({c \in DOMAIN surface.cells : surface.cells[c] > 0})
  + (IF surface.bg > 0 THEN NumBackground(surface) ELSE 0)

\* Mutant: bisect_right, which counts the values equal to v too.
BisectRight(surface, v) ==
  Cardinality({c \in DOMAIN surface.cells :
                 surface.cells[c] > 0 /\ surface.cells[c] <= v})
  + (IF surface.bg > 0 /\ surface.bg <= v THEN NumBackground(surface) ELSE 0)

\* bisect_left(all_values, v): how many positive values lie below v.
BisectLeft(surface, v) ==
  Cardinality({c \in DOMAIN surface.cells :
                 surface.cells[c] > 0 /\ surface.cells[c] < v})
  + (IF surface.bg > 0 /\ surface.bg < v THEN NumBackground(surface) ELSE 0)

\* int(vi * num_colors) for vi = rank / num_values (lines 180-181).
PaletteIndex(rank, num_values, num_colors) == (rank * num_colors) \div num_values

\* The palette index of a cell holding v.
CellIndex(config, surface, v) ==
  PaletteIndex(BisectLeft(surface, v), NumValues(surface), config.num_colors)

\* Whether paint_image raises: compiling the spectrum, dividing by
\* num_values = 0, or indexing past the spectrum.
PaintRaises(config, surface) ==
  IF SpectrumRaises(config.num_colors) THEN TRUE
  ELSE IF NumCells(surface) = 0 THEN FALSE
  ELSE IF NumValues(surface) = 0 THEN TRUE
  ELSE \E v \in Values(surface) :
         CellIndex(config, surface, v) >= Len(color_spectrum(config.num_colors))

\* The image: every pixel holds the colour of its cell.
paint_image(config, surface) ==
  LET spectrum == color_spectrum(config.num_colors)
      F(v) == spectrum[CellIndex(config, surface, v) + 1]
  IN  MkArray(surface.shape, F(surface.bg),
              [c \in DOMAIN surface.cells |-> F(surface.cells[c])])

\* ------------------------------------------------------ _split_into_tiles

\* len(range(a, b))
RangeLen(a, b) == Max(0, b - a)

NumTiles(geom) ==
  RangeLen(geom.top_left_tile[1], geom.bottom_right_tile[1])
  * RangeLen(geom.top_left_tile[2], geom.bottom_right_tile[2])

\* The crop box of the tile of local index (i, j): (left, upper, right, lower).
CropBox(i, j) ==
  <<i * TileSize, j * TileSize, (i + 1) * TileSize, (j + 1) * TileSize>>

\* Mutant: the tuple carries the tile's indexes within the canvas.
TileAtRasterLocal(geom, k) ==
  LET ny == RangeLen(geom.top_left_tile[2], geom.bottom_right_tile[2])
      i == k \div ny
      j == k % ny
  IN  [x |-> i, y |-> j, crop |-> CropBox(i, j)]

\* The k-th tuple the generator yields, k from 0: product() runs j fastest.
TileAt(geom, k) ==
  LET ny == RangeLen(geom.top_left_tile[2], geom.bottom_right_tile[2])
      i == k \div ny
      j == k % ny
  IN  [x |-> geom.top_left_tile[1] + i, y |-> geom.top_left_tile[2] + j,
       crop |-> CropBox(i, j)]

\* ------------------------------------------------------- the render call

VARIABLES
  pc,            \* where the call is: "start", "compiled", "accumulating",
                 \* "logged", "toned", "painted", "done", "failed"
  stretch,       \* TRUE: render_heatmap_to_tiles, FALSE: render_heatmap_to_image
  box, zoom, config, data_points,     \* the arguments of the call
  geom,          \* Geometry.compile's result
  surface,       \* the surface of compute_surface_matrix
  n,             \* how many data points the loop has stamped
  image,         \* paint_image's result
  tiles,         \* the tuples _split_into_tiles has yielded so far
  error,         \* "none", or the step that raised
  caches,        \* the entries of the two lru_caches of the process
  cache_info     \* of _create_kernel's cache: whether the last call was a
                 \* hit, and whether an entry has been evicted so far

vars ==
  <<pc, stretch, box, zoom, config, data_points, geom, surface, n, image,
    tiles, error, caches, cache_info>>

\* Sequences over S of length at most k.
SeqsUpTo(S, k) == UNION {[1 .. m -> S] : m \in 0 .. k}

DataPoint(lat, lng, weight, radius_metres) ==
  [latlng |-> [lat |-> lat, lng |-> lng], weight |-> weight,
   radius_metres |-> radius_metres]

\* Data points whose kernels overlap around the tile boundary, and one that
\* lies off the small canvases.
CorePoints ==
  { DataPoint(TileSize, TileSize, 1, Some(2)),
    DataPoint(TileSize - 1, TileSize, 2, Some(1)),
    DataPoint(TileSize, TileSize - 1, 1, None),
    DataPoint(TileSize - 4, TileSize - 4, 2, Some(1)) }

HighTrims == {Scale \div 2, (99 * Scale) \div 100}
Loggings == {0, 1}

Config(default_radius_metres, num_colors, high_trim, num_loggings) ==
  [gradient |-> "GREEN_TO_RED", default_radius_metres |-> default_radius_metres,
   num_colors |-> num_colors, high_trim |-> high_trim,
   num_loggings |-> num_loggings]

\* The configurations of whole renders.
Configs ==
  { Config(2, c, t, l) : c \in 1 .. MaxColors, t \in HighTrims, l \in Loggings }

\* The configurations of renders that exercise the accumulation loop.
AccumConfigs ==
  { Config(d, MaxColors, (99 * Scale) \div 100, 1) : d \in {-1, 0, 2} }

InitWith(boxes, modes, configs, lists) ==
  /\ pc = "start"
  /\ stretch \in modes
  /\ box \in boxes
  /\ zoom \in Zooms
  /\ config \in configs
  /\ data_points \in lists
  /\ geom = <<>>
  /\ surface = <<>>
  /\ n = 0
  /\ image = <<>>
  /\ tiles = <<>>
  /\ error = "none"
  /\ caches = [metres_to_pixels |-> <<>>, create_kernel |-> <<>>]
  /\ cache_info = [hit |-> FALSE, evicted |-> FALSE]

\* Any box, inverted ones included, with up to MaxPoints of the core points.
Init == InitWith(Boxes, BOOLEAN, Configs, SeqsUpTo(CorePoints, MaxPoints))

\* A valid box with one data point anywhere around it, or up to MaxPoints of
\* the core points.
InitAccum ==
  InitWith(ValidBoxes, BOOLEAN, AccumConfigs,
           SeqsUpTo(CorePoints, MaxPoints) \cup {<<p>> : p \in DataPoints})

Fail(step) ==
  /\ pc' = "failed"
  /\ error' = step

\* geom = Geometry.compile(box, zoom, stretch_to_full_tiles=...)
Compile ==
  /\ pc = "start"
  /\ geom' = GeometryCompile(box, zoom, stretch)
  /\ pc' = "compiled"
  /\ UNCHANGED <<stretch, box, zoom, config, data_points, surface, n, image,
                 tiles, error>>
  /\ UNCHANGED <<caches, cache_info>>

\* surface = np.zeros(geom.pixel_size)
Allocate ==
  /\ pc = "compiled"
  /\ IF ZerosRaises(geom.pixel_size)
     THEN Fail("np.zeros") /\ UNCHANGED surface
     ELSE /\ surface' = Zeros(geom.pixel_size)
          /\ pc' = "accumulating"
          /\ UNCHANGED error
  /\ UNCHANGED <<stretch, box, zoom, config, data_points, geom, n, image, tiles>>
  /\ UNCHANGED <<caches, cache_info>>

\* One pass of the loop over data_points: the two cached functions are
\* called, their caches updated, and the kernel is stamped.
StampPoint ==
  /\ pc = "accumulating"
  /\ n < Len(data_points)
  /\ LET point == data_points[n + 1]
         metres == PyOr(point.radius_metres, config.default_radius_metres)
         radius_pixels ==
           cached_metres_to_pixels(caches.metres_to_pixels, box, zoom, metres)
         hit == LruHas(caches.create_kernel, radius_pixels)
         raises == ~hit /\ CreateKernelRaises(radius_pixels)
         kernel == cached_create_kernel(caches.create_kernel, radius_pixels)
     IN  /\ caches' =
              [metres_to_pixels |->
                 LruPut(caches.metres_to_pixels, <<box, zoom, metres>>,
                        radius_pixels),
               create_kernel |->
                 IF raises THEN caches.create_kernel
                 ELSE LruPut(caches.create_kernel, radius_pixels,
                             KernelAfterStamp(kernel, point.weight))]
         /\ cache_info' =
              IF raises THEN cache_info
              ELSE [hit |-> hit,
                    evicted |-> \/ cache_info.evicted
                                \/ LruEvicts(caches.create_kernel, radius_pixels)]
         /\ IF raises \/ SliceAddRaises(surface, zoom, geom, point, radius_pixels)
            THEN Fail("stamp") /\ UNCHANGED <<surface, n>>
            ELSE /\ surface' = StampWith(surface, zoom, geom, point,
                                         radius_pixels, kernel)
                 /\ n' = n + 1
                 /\ UNCHANGED <<pc, error>>
  /\ UNCHANGED <<stretch, box, zoom, config, data_points, geom, image, tiles>>

\* The logging passes, once the loop has ended.
Logging ==
  /\ pc = "accumulating"
  /\ n = Len(data_points)
  /\ surface' = Logged(surface, config.num_loggings)
  /\ pc' = "logged"
  /\ UNCHANGED <<stretch, box, zoom, config, data_points, geom, n, image,
                 tiles, error>>
  /\ UNCHANGED <<caches, cache_info>>

\* Normalisation and high trim; compute_surface_matrix returns.
ToneMap ==
  /\ pc = "logged"
  /\ IF AminRaises(surface)
     THEN Fail("np.amin") /\ UNCHANGED surface
     ELSE /\ surface' = ToneMapped(config, surface)
          /\ pc' = "toned"
          /\ UNCHANGED error
  /\ UNCHANGED <<stretch, box, zoom, config, data_points, geom, n, image, tiles>>
  /\ UNCHANGED <<caches, cache_info>>

\* image = paint_image(config, surface)
Paint ==
  /\ pc = "toned"
  /\ IF PaintRaises(config, surface)
     THEN Fail("paint_image") /\ UNCHANGED image
     ELSE /\ image' = paint_image(config, surface)
          /\ pc' = "painted"
          /\ UNCHANGED error
  /\ UNCHANGED <<stretch, box, zoom, config, data_points, geom, surface, n, tiles>>
  /\ UNCHANGED <<caches, cache_info>>

\* Mutant: the tiles are sliced lazily, before the image is painted.
SliceStartBeforePaint(p) == p \in {"toned", "painted"}

\* The step of the call after which _split_into_tiles runs (line 218 follows
\* line 217).
SliceStart(p) == p = "painted"

\* The caller draws the next tuple from the generator.
YieldTile ==
  /\ SliceStart(pc)
  /\ stretch
  /\ Len(tiles) < NumTiles(geom)
  /\ tiles' = Append(tiles, TileAt(geom, Len(tiles)))
  /\ UNCHANGED <<pc, stretch, box, zoom, config, data_points, geom, surface,
                 n, image, error>>
  /\ UNCHANGED <<caches, cache_info>>

\* render_heatmap_to_image returns the image, or the generator is exhausted.
Finish ==
  /\ pc = "painted"
  /\ stretch => Len(tiles) = NumTiles(geom)
  /\ pc' = "done"
  /\ UNCHANGED <<stretch, box, zoom, config, data_points, geom, surface, n,
                 image, tiles, error>>
  /\ UNCHANGED <<caches, cache_info>>

Next ==
  \/ Compile
  \/ Allocate
  \/ StampPoint
  \/ Logging
  \/ ToneMap
  \/ Paint
  \/ YieldTile
  \/ Finish

Spec == Init /\ [][Next]_vars

SpecAccum == InitAccum /\ [][Next]_vars

\* --------------------------------------------- render calls of one process

\* Data points of two weights whose radii resolve to different kernels.
CachePoints ==
  { DataPoint(TileSize, TileSize, 2, Some(2)),
    DataPoint(TileSize - 1, TileSize, 1, Some(1)) }

CacheBoxes ==
  { b \in ValidBoxes : b.north = TileSize - 2 /\ b.west \in {TileSize - 2, TileSize} }

CacheConfigs == { Config(2, MaxColors, (99 * Scale) \div 100, 1) }

CacheLists == SeqsUpTo(CachePoints, MaxPoints)

InitCache == InitWith(CacheBoxes, BOOLEAN, CacheConfigs, CacheLists)

\* The process makes its next render call, once the last one has returned
\* or raised: the caches of the two functions live on.
NewCall ==
  /\ pc \in {"done", "failed"}
  /\ stretch' \in BOOLEAN
  /\ box' \in CacheBoxes
  /\ zoom' \in Zooms
  /\ config' \in CacheConfigs
  /\ data_points' \in CacheLists
  /\ pc' = "start"
  /\ geom' = <<>>
  /\ surface' = <<>>
  /\ n' = 0
  /\ image' = <<>>
  /\ tiles' = <<>>
  /\ error' = "none"
  /\ UNCHANGED <<caches, cache_info>>

NextCache ==
  \/ Next
  \/ NewCall

SpecCache == InitCache /\ [][NextCache]_vars

\* =================================================================== claims

Range(f) == {f[i] : i \in DOMAIN f}

\* ------------------------------------------------------------------- C1

TileRect(g) ==
  (g.top_left_tile[1] .. g.bottom_right_tile[1] - 1)
  \X (g.top_left_tile[2] .. g.bottom_right_tile[2] - 1)

CropsDisjoint(a, b) ==
  a[3] <= b[1] \/ b[3] <= a[1] \/ a[4] <= b[2] \/ b[4] <= a[2]

CropArea(a) == (a[3] - a[1]) * (a[4] - a[2])

RECURSIVE SumAreas(_, _)
SumAreas(ts, k) == IF k = 0 THEN 0 ELSE CropArea(ts[k].crop) + SumAreas(ts, k - 1)

\* C1: with stretch_to_full_tiles = true, the tuples yielded are tiles of the
\* rectangle [top_left_tile, bottom_right_tile), no tile twice, each with the
\* crop of the raster at its local offset times 256, so the crops are 256 by 256
\* and pairwise disjoint; once the generator is exhausted every tile of the
\* rectangle has been yielded and the crops cover the whole raster.
C1_TilesCoverRasterExactlyOnce ==
  (stretch /\ pc \in {"painted", "done"}) =>
    /\ \A k \in DOMAIN tiles :
         /\ <<tiles[k].x, tiles[k].y>> \in TileRect(geom)
         /\ tiles[k].crop =
              << (tiles[k].x - geom.top_left_tile[1]) * 256,
                 (tiles[k].y - geom.top_left_tile[2]) * 256,
                 (tiles[k].x - geom.top_left_tile[1] + 1) * 256,
                 (tiles[k].y - geom.top_left_tile[2] + 1) * 256 >>
         /\ tiles[k].crop[1] >= 0 /\ tiles[k].crop[2] >= 0
         /\ tiles[k].crop[3] <= image.shape[1] /\ tiles[k].crop[4] <= image.shape[2]
    /\ \A k, m \in DOMAIN tiles :
         k # m => /\ <<tiles[k].x, tiles[k].y>> # <<tiles[m].x, tiles[m].y>>
                  /\ CropsDisjoint(tiles[k].crop, tiles[m].crop)
    /\ pc = "done" =>
         /\ {<<tiles[k].x, tiles[k].y>> : k \in DOMAIN tiles} = TileRect(geom)
         /\ SumAreas(tiles, Len(tiles)) = image.shape[1] * image.shape[2]

\* A render to tiles has yielded all the tiles of a box that starts in the
\* second tile column and spans two tile rows.
C1_Witness ==
  /\ stretch /\ pc = "done"
  /\ Len(tiles) = 2
  /\ geom.top_left_tile = <<1, 0>>

\* ------------------------------------------------------------------- C2

\* C2: a call that fails has delivered nothing: no tile was yielded before
\* the failure and no image is returned; tiles are only yielded once every
\* step that can fail has completed.
C2_NoPartialResult ==
  /\ (pc = "failed" \/ error # "none") => (tiles = <<>> /\ pc = "failed")
  /\ tiles # <<>> => (pc \in {"painted", "done"} /\ image # <<>>)
  /\ pc = "done" => (error = "none" /\ image # <<>>)

\* A render to tiles over a canvas of four tiles fails in the last step that
\* can fail.
C2_Witness ==
  /\ pc = "failed" /\ error = "paint_image"
  /\ stretch /\ NumTiles(geom) = 4

\* ------------------------------------------------------------------- C6

\* C6: with stretch_to_full_tiles = true, pixel_size is 256 times the tile
\* extent on both axes, and the pixel bounds are 256 times the tile bounds.
C6_CanvasIsWholeTiles ==
  (stretch /\ pc # "start") =>
    /\ geom.pixel_size[1] = 256 * (geom.bottom_right_tile[1] - geom.top_left_tile[1])
    /\ geom.pixel_size[2] = 256 * (geom.bottom_right_tile[2] - geom.top_left_tile[2])
    /\ geom.top_left_pixel =
         <<256 * geom.top_left_tile[1], 256 * geom.top_left_tile[2]>>
    /\ geom.bottom_right_pixel =
         <<256 * geom.bottom_right_tile[1], 256 * geom.bottom_right_tile[2]>>

\* A stretched geometry two tiles wide and one tile high, off the origin.
C6_Witness ==
  /\ stretch /\ pc = "compiled"
  /\ geom.pixel_size = <<512, 256>>
  /\ geom.top_left_tile = <<0, 1>>

\* ------------------------------------------------------------------- C7

\* C7: once Geometry.compile has returned, the canvas size is strictly
\* positive on both axes (any other box is rejected by compile itself).
C7_CompiledCanvasIsPositive ==
  pc \notin {"start"} => (geom.pixel_size[1] > 0 /\ geom.pixel_size[2] > 0)

\* ------------------------------------------------------------------- C3

\* A surface whose cells all hold one value (max == min).
Flat(a) == NumCells(a) > 0 /\ Cardinality(Values(a)) = 1

HoldsNaN(a) == NaN \in Values(a)

\* C3: a surface that is flat after the logging passes makes
\* compute_surface_matrix end in an error: the step that follows the logging
\* passes of a flat surface is the failure of the call, never a return.
C3_FlatSurfaceRaises ==
  [][(pc = "logged" /\ Flat(surface)) => pc' = "failed"]_vars

\* C3, second half: compute_surface_matrix never returns a surface holding NaN.
C3_NeverReturnsNaN ==
  pc = "toned" => ~HoldsNaN(surface)

\* ------------------------------------------------------------------- C4

\* The data point the loop is about to stamp.
AtPoint == pc = "accumulating" /\ n < Len(data_points)
ThePoint == data_points[n + 1]
TheRadius == RadiusPixels(config, box, zoom, ThePoint)
TheOrigin == KernelOrigin(zoom, geom, ThePoint, TheRadius)

\* The kernel square [o, o + 2r) misses [0, extent) altogether.
OutsideAxis(o, r, extent) == o + 2 * r <= 0 \/ o >= extent

\* The kernel square sticks out of both ends of [0, extent).
OverhangsBoth(o, r, extent) == o < 0 /\ o + 2 * r > extent

\* C4: stamping a point whose kernel square lies fully outside the canvas on
\* an axis does not raise and leaves the surface as it is.
C4_OffCanvasPointIsNoOp ==
  [][(/\ AtPoint
      /\ TheRadius > 0
      /\ \/ OutsideAxis(TheOrigin[1], TheRadius, surface.shape[1])
         \/ OutsideAxis(TheOrigin[2], TheRadius, surface.shape[2]))
     => (pc' = "accumulating" /\ surface' = surface)]_vars

\* ------------------------------------------------------------------- C5

Perms(k) == {f \in [1 .. k -> 1 .. k] : \A i, j \in 1 .. k : f[i] = f[j] => i = j}

\* The loop run over points[order[1]], ..., points[order[k]] from `s`.
RECURSIVE Accumulated(_, _, _, _)
Accumulated(s, points, order, k) ==
  IF k = 0 THEN s
  ELSE Stamp(Accumulated(s, points, order, k - 1), config, box, zoom, geom,
             points[order[k]])

AnyRaises(s, points) ==
  \E i \in DOMAIN points : StampRaises(s, config, box, zoom, geom, points[i])

\* C5: when the loop has ended, the surface is the one the loop yields for
\* every permutation of data_points; and when the loop raised, it raises for
\* every permutation.
C5_AccumulationOrderIndependent ==
  /\ (pc = "accumulating" /\ n = Len(data_points)) =>
       \A order \in Perms(Len(data_points)) :
         /\ ~AnyRaises(surface, data_points)
         /\ Accumulated(Zeros(geom.pixel_size), data_points, order,
                        Len(data_points)) = surface
  /\ (pc = "failed" /\ error = "stamp") => AnyRaises(surface, data_points)

\* Two different points have been stamped and some cell holds the sum of a
\* contribution of each.
C5_Witness ==
  /\ pc = "accumulating" /\ n = Len(data_points) /\ n >= 2
  /\ data_points[1] # data_points[2]
  /\ LET z == Zeros(geom.pixel_size)
         a == Stamp(z, config, box, zoom, geom, data_points[1])
         b == Stamp(z, config, box, zoom, geom, data_points[2])
     IN  \E c \in DOMAIN a.cells \cap DOMAIN b.cells :
           a.cells[c] # b.cells[c] /\ Val(surface, c) >= a.cells[c] + b.cells[c]

\* ------------------------------------------------------------------- C8

\* C8: a data point whose radius in pixels is zero or negative makes the loop
\* fail: the step that handles it is the failure of the call.
C8_NonPositiveRadiusRaises ==
  [][(AtPoint /\ TheRadius <= 0) => pc' = "failed"]_vars

\* ------------------------------------------------------------------- C9

\* The canvas cells inside the kernel square of origin o and side 2r.
KernelCells(shape, o, r) ==
  (Max(0, o[1]) .. Min(shape[1], o[1] + 2 * r) - 1)
  \X (Max(0, o[2]) .. Min(shape[2], o[2] + 2 * r) - 1)

\* The surface with weight * kernel[cx - ox, cy - oy] added to every canvas
\* cell of the kernel square.
WithKernelAdded(s, o, r, weight) ==
  LET inside == KernelCells(s.shape, o, r)
      kernel == create_kernel(r)
  IN  MkArray(s.shape, s.bg,
        [c \in DOMAIN s.cells \cup inside |->
           IF c \in inside
           THEN Val(s, c) + weight * kernel[<<c[1] - o[1], c[2] - o[2]>>]
           ELSE Val(s, c)])

\* C9: for a radius r > 0, stamping a point does not raise, adds
\* weight * kernel[cx - ox, cy - oy] to every canvas cell of the kernel square
\* and leaves every other cell unchanged.
C9_StampAddsClippedKernel ==
  [][(AtPoint /\ TheRadius > 0)
     => /\ pc' = "accumulating"
        /\ surface' = WithKernelAdded(surface, TheOrigin, TheRadius,
                                      ThePoint.weight)]_vars

\* ------------------------------------------------------------------ C10

\* C10: for a surface with a positive value and a palette of n >= 2 colours,
\* the palette index of every cell lies in 0 .. n-1, and so does the index of
\* every rank bisect_left can return for a value of the surface.
C10_PaletteIndexInRange ==
  (pc = "toned" /\ NumValues(surface) > 0 /\ config.num_colors >= 2) =>
    /\ \A v \in Values(surface) :
         CellIndex(config, surface, v) \in 0 .. config.num_colors - 1
    /\ \A rank \in 0 .. NumValues(surface) - 1 :
         PaletteIndex(rank, NumValues(surface), config.num_colors)
           \in 0 .. config.num_colors - 1

\* A surface to paint on which several cells are tied at the trimmed ceiling.
C10_Witness ==
  /\ pc = "toned" /\ config.num_colors >= 2
  /\ Cardinality({c \in DOMAIN surface.cells : surface.cells[c] = Scale}) >= 2
  /\ SetMax(Values(surface)) = Scale

\* ------------------------------------------------------------------- C11

\* The values of the cells of a that are zero or negative.
NonPositiveValues(a) == {v \in Values(a) : v <= 0}

C12_ToneMappedSpansUnitInterval ==
  [][(/\ pc = "logged"
      /\ pc' = "toned"
      /\ ~Flat(surface)
      /\ \A v \in Values(surface) : v >= 0
      /\ config.high_trim > 0
      /\ config.high_trim <= Scale)
     => (/\ \A v \in Values(surface') : 0 <= v /\ v <= Scale
         /\ SetMin(Values(surface')) = 0
         /\ SetMax(Values(surface')) = Scale)]_vars

\* ------------------------------------------------------------------- C13

\* a <= b on floats: false when either is NaN.
FloatLeq(a, b) == a # NaN /\ b # NaN /\ a <= b

\* a[c] <= b[c] at every cell c of two arrays of one shape.
CellsLeq(a, b) ==
  LET stored == DOMAIN a.cells \cup DOMAIN b.cells
  IN  /\ a.shape = b.shape
      /\ \A c \in stored : FloatLeq(Val(a, c), Val(b, c))
      /\ Cardinality(stored) < NumCells(a) => FloatLeq(a.bg, b.bg)

\* Surfaces of the shape of s2 to compare it with: the logged surface of
\* every proper prefix of the data points, and s2 with one cell lowered to
\* zero or to a lower value of s2.
LowerSurfaces(s2) ==
  {Logged(Accumulated(Zeros(s2.shape), data_points, [i \in 1 .. n |-> i], k),
          config.num_loggings) : k \in 0 .. n - 1}
  \cup UNION {{MkArray(s2.shape, s2.bg, [s2.cells EXCEPT ![c] = v]) :
                 v \in {w \in Values(s2) \cup {0} : w < s2.cells[c]}} :
              c \in DOMAIN s2.cells}

\* The pairs S1, S2 = surface the claim is about, once the logging passes
\* have run: S1 <= S2 at every cell, and tone mapping is defined on both.
ComparedWith(s1) ==
  /\ CellsLeq(s1, surface)
  /\ SetMax(Values(s1)) > 0

SameExtremes(s1, s2) ==
  /\ SetMin(Values(s1)) = SetMin(Values(s2))
  /\ SetMax(Values(s1)) = SetMax(Values(s2))

\* C13 as stated: for two surfaces S1 <= S2 of one shape, after the logging
\* passes, the tone-mapped intensities satisfy out1[c] <= out2[c] at every
\* cell c.
C13_ToneMapPreservesOrderBetweenSurfaces ==
  (pc = "logged" /\ ~AminRaises(surface)) =>
    \A s1 \in LowerSurfaces(surface) :
      ComparedWith(s1) =>
        CellsLeq(ToneMapped(config, s1), ToneMapped(config, surface))

\* C13, amended: for two surfaces S1 <= S2 of one shape that have the same
\* minimum and the same positive maximum after the logging passes, the
\* tone-mapped intensities satisfy out1[c] <= out2[c] at every cell c.
C13_ToneMapPreservesOrderSameExtremes ==
  (pc = "logged" /\ ~AminRaises(surface)) =>
    \A s1 \in LowerSurfaces(surface) :
      (ComparedWith(s1) /\ SameExtremes(s1, surface)) =>
        CellsLeq(ToneMapped(config, s1), ToneMapped(config, surface))

\* Two different surfaces S1 <= S2 with the same extremes whose tone-mapped
\* intensities differ, one cell of S2 being clamped by the high trim.
C13_Witness ==
  /\ pc = "logged"
  /\ ~AminRaises(surface)
  /\ \E s1 \in LowerSurfaces(surface) :
       /\ ComparedWith(s1)
       /\ SameExtremes(s1, surface)
       /\ ToneMapped(config, s1) # ToneMapped(config, surface)
       /\ \E v \in Values(Normalised(surface)) : v > config.high_trim

\* ------------------------------------------------------------------- C14

\* The radius in metres the claim gives a data point: its own when it
\* carries one, the configured default when it carries none.
OwnRadiusOrDefault(point) ==
  IF point.radius_metres = None THEN config.default_radius_metres
  ELSE point.radius_metres[1]

\* C14: the radius in metres that sizes a data point's kernel is the point's
\* own radius_metres whenever it is present, 0 included, and
\* config.default_radius_metres only when it is None.
C14_OwnRadiusWheneverPresent ==
  AtPoint =>
    TheRadius = metres_to_pixels(box, zoom, OwnRadiusOrDefault(ThePoint))

\* ------------------------------------------------------------------- C15

\* The surface of the first k data points of the call, the two functions
\* being computed afresh for every point.
Uncached(k) ==
  Accumulated(Zeros(geom.pixel_size), data_points,
              [i \in 1 .. Len(data_points) |-> i], k)

\* C15: the memoisation is not observable. Through any sequence of render
\* calls, with entries evicted and rebuilt, every cached value is the value
\* the function computes (no call has modified a cached kernel), a call
\* raises in its loop where the uncached call raises, and its surface is at
\* every step the surface of the uncached call.
C15_MemoisationNotObservable ==
  /\ \A i \in DOMAIN caches.create_kernel :
       caches.create_kernel[i].value = create_kernel(caches.create_kernel[i].key)
  /\ \A i \in DOMAIN caches.metres_to_pixels :
       LET key == caches.metres_to_pixels[i].key
       IN  caches.metres_to_pixels[i].value
             = metres_to_pixels(key[1], key[2], key[3])
  /\ pc \in {"accumulating", "logged", "toned", "painted", "done"} =>
       \A i \in 1 .. n :
         ~StampRaises(surface, config, box, zoom, geom, data_points[i])
  /\ (pc = "failed" /\ error = "stamp") =>
       StampRaises(surface, config, box, zoom, geom, data_points[n + 1])
  /\ pc \in {"accumulating", "failed"} /\ error \in {"none", "stamp"} =>
       surface = Uncached(n)
  /\ pc = "logged" => surface = Logged(Uncached(n), config.num_loggings)
  /\ pc \in {"toned", "painted", "done"} =>
       surface = ToneMapped(config, Logged(Uncached(n), config.num_loggings))

\* A call has returned a surface whose last kernel came from the cache, with
\* a weight above 1 on it, after an entry had been evicted.
C15_Witness ==
  /\ pc = "toned"
  /\ cache_info.hit
  /\ cache_info.evicted
  /\ n >= 1
  /\ data_points[n].weight > 1
  /\ \E v \in Values(surface) : v > 0

====
